---- MODULE Spec2Model ----
(***************************************************************************)
(* Padel league ladder: the league store (teams, challenges), the client   *)
(* side LeagueContext that caches it, and the operations of LeagueContext  *)
(* (createTeam, createChallenge, respondToChallenge, submitScore,          *)
(* validateScore, canChallenge).                                           *)
(*                                                                         *)
(* The store is the Postgres schema: ids are allocated in sequence, so a   *)
(* table is a sequence and a row's id is its index.  UNIQUE(league,        *)
(* position) on teams rejects a write that would make two teams of a       *)
(* league share a position.  Row level security is not modelled: every     *)
(* client may read and write every row.                                    *)
(***************************************************************************)
EXTENDS Integers, Sequences, FiniteSets, TLC

VARIABLES
    dbTeams,        \* table teams: <<[league, position, previous_position]>>
    dbChallenges,   \* table challenges
    dbProfiles,     \* table profiles: user -> team_id
    dbJoinRequests, \* table join_requests
    cache,          \* per client: the React state teams / challenges / joinRequests
    settings,       \* LeagueContext.settings (NoSettings when not loaded)
    now,            \* the clock read by canChallenge, in ticks
    last,           \* outcome of the last operation (returned / thrown)
    vs,             \* per client: the validateScore call in progress
    elig,           \* canChallenge call: arguments and result
    cc,             \* per client: the challenge being sent (Challenges screen)
                    \* and its insert requests the store has not served yet
    scores,         \* per client: the fields of the score dialog, parsed
    rj,             \* per client: the respondToJoinRequest call in progress
    limits          \* sizes the tables may grow to in this run

vars == <<dbTeams, dbChallenges, dbProfiles, dbJoinRequests, cache,
          settings, now, last, vs, elig, cc, scores, rj, limits>>

\* what no operation of the store touches
others == <<settings, now, vs, elig, cc, scores, rj, limits>>

Leagues == {"mens", "womens"}
Clients == {"c1", "c2"}

NULL == 0
NullSets == <<>>
TempPosition == 99999
TeamCapacity == 4

\* Bounds of the model
MaxTeams == 4          \* Spec: rows of teams
MaxChallenges == 1     \* Spec: rows of challenges

\* Scores a client submits: challenger wins 2-0, challenged wins 2-0,
\* challenger wins 2-1, challenged wins 2-1.
ScoreInputs ==
    { <<<<6, 6>>, <<4, 3>>>>,
      <<<<3, 4>>, <<6, 6>>>>,
      <<<<6, 3, 7>>, <<4, 6, 5>>>>,
      <<<<6, 3, 5>>, <<4, 6, 7>>>> }

----------------------------------------------------------------------------
\* Store: table teams

TeamIds(T) == 1..Len(T)

\* UNIQUE(league, position): may row id take position pos?
PositionFree(T, id, league, pos) ==
    \A j \in TeamIds(T) : j # id => ~(T[j].league = league /\ T[j].position = pos)

\* UPDATE teams SET position = pos WHERE id = id
\* (an error leaves the row as it was; the callers only log it)
UpdatePosition(T, id, pos) ==
    IF id \in TeamIds(T) /\ PositionFree(T, id, T[id].league, pos)
    THEN [T EXCEPT ![id].position = pos]
    ELSE T

\* UPDATE teams SET previous_position = prev, position = pos WHERE id = id
UpdatePositionPrev(T, id, pos, prev) ==
    IF id \in TeamIds(T) /\ PositionFree(T, id, T[id].league, pos)
    THEN [T EXCEPT ![id].position = pos, ![id].previous_position = prev]
    ELSE T

\* The rows of a set, as a sequence in descending order of position
RECURSIVE OrderDesc(_)
OrderDesc(S) ==
    IF S = {} THEN <<>>
    ELSE LET top == CHOOSE x \in S : \A y \in S : x.position >= y.position
         IN <<top>> \o OrderDesc(S \ {top})

\* faulty variant: the range leaves out the loser: position > lo
SelectTeamsAboveLoser(T, league, lo, hi) ==
    OrderDesc({ [id |-> j, position |-> T[j].position] :
                j \in { k \in TeamIds(T) : /\ T[k].league = league
                                           /\ T[k].position > lo
                                           /\ T[k].position < hi } })

\* SELECT id, position FROM teams WHERE league = .. AND position >= lo
\* AND position < hi ORDER BY position DESC
SelectTeamsToShift(T, league, lo, hi) ==
    OrderDesc({ [id |-> j, position |-> T[j].position] :
                j \in { k \in TeamIds(T) : /\ T[k].league = league
                                           /\ T[k].position >= lo
                                           /\ T[k].position < hi } })

\* faulty variant: the shift does not record the previous position
ShiftTeamKeepPrevious(T, team) == UpdatePosition(T, team.id, team.position + 1)

\* One iteration of the shift loop
ShiftTeam(T, team) == UpdatePositionPrev(T, team.id, team.position + 1, team.position)

RECURSIVE ShiftAll(_, _)
ShiftAll(T, list) ==
    IF list = <<>> THEN T
    ELSE ShiftAll(ShiftTeam(T, Head(list)), Tail(list))

\* The position update of validateScore, run without interruption
RankingUpdate(T, challengerId, challengedId) ==
    IF challengerId \in TeamIds(T) /\ challengedId \in TeamIds(T)
       /\ challengerId # challengedId
       /\ T[challengerId].position > T[challengedId].position
    THEN LET loserPosition == T[challengedId].position
             winnerOldPosition == T[challengerId].position
             T1 == UpdatePosition(T, challengerId, TempPosition)
             teamsToShift == SelectTeamsToShift(T1, T[challengerId].league,
                                                loserPosition, winnerOldPosition)
             T2 == ShiftAll(T1, teamsToShift)
         IN UpdatePositionPrev(T2, challengerId, loserPosition, winnerOldPosition)
    ELSE T

----------------------------------------------------------------------------
\* Client side

\* leagueTeams.length + 1 over the cached teams
NextPosition(teams, league) ==
    Cardinality({ j \in TeamIds(teams) : teams[j].league = league }) + 1

HasScore(ch) == ch.challenger_sets # NullSets /\ ch.challenged_sets # NullSets

IsActive(ch) ==
    \/ ch.status = "pending"
    \/ ch.status = "accepted"
    \/ (ch.status = "completed" /\ ~ch.score_validated)

Between(ch, a, b) ==
    \/ (ch.challenger_team_id = a /\ ch.challenged_team_id = b)
    \/ (ch.challenger_team_id = b /\ ch.challenged_team_id = a)

\* challenges.find(... active challenge between the two teams ...)
ExistingChallenge(challenges, a, b) ==
    \E i \in 1..Len(challenges) : Between(challenges[i], a, b) /\ IsActive(challenges[i])

\* number of sets in which side a has more games than side b
SetsWon(a, b) == Cardinality({ i \in 1..Len(a) : i <= Len(b) /\ a[i] > b[i] })

\* faulty variant: the winner of the first set is the winner
WinnerIdByFirstSet(ch) ==
    IF ch.challenger_sets[1] > ch.challenged_sets[1]
    THEN ch.challenger_team_id
    ELSE ch.challenged_team_id

WinnerId(ch) ==
    IF SetsWon(ch.challenger_sets, ch.challenged_sets)
         > SetsWon(ch.challenged_sets, ch.challenger_sets)
    THEN ch.challenger_team_id
    ELSE ch.challenged_team_id

RefreshData(c) ==
    [cache EXCEPT ![c] = [teams |-> dbTeams', challenges |-> dbChallenges',
                          joinRequests |-> dbJoinRequests']]
FetchChallenges(c) == [cache EXCEPT ![c].challenges = dbChallenges']

\* What the last call did: its name, its result ("ok", or the error it
\* threw or returned) and the id of the row it was about
Outcome(op, result, id) == [op |-> op, result |-> result, id |-> id]

\* settings === null
NoSettings == [loaded |-> FALSE, challengeRestrictionDate |-> NULL,
               maxPositionDifference |-> NULL]

----------------------------------------------------------------------------
\* Operations, each run to completion

createTeam(c, league) ==
    /\ Len(dbTeams) < limits.teams
    /\ LET nextPosition == NextPosition(cache[c].teams, league)
       IN IF PositionFree(dbTeams, NULL, league, nextPosition)
          THEN /\ dbTeams' = Append(dbTeams, [league |-> league,
                                              position |-> nextPosition,
                                              previous_position |-> nextPosition])
               /\ dbProfiles' = [dbProfiles EXCEPT ![c] = Len(dbTeams) + 1]
               /\ last' = Outcome("createTeam", "ok", Len(dbTeams) + 1)
               /\ UNCHANGED <<dbChallenges, dbJoinRequests>>
               /\ cache' = RefreshData(c)
          ELSE /\ last' = Outcome("createTeam", "store error", NULL)
               /\ UNCHANGED <<dbTeams, dbChallenges, dbProfiles, dbJoinRequests, cache>>
    /\ UNCHANGED others

\* INSERT INTO challenges (challenger_team_id, challenged_team_id, status)
NewChallenge(a, b) ==
    [challenger_team_id |-> a, challenged_team_id |-> b, status |-> "accepted",
     challenger_sets |-> NullSets, challenged_sets |-> NullSets,
     score_submitted_by |-> NULL, score_validated |-> FALSE, winner_id |-> NULL]

createChallenge(c, challengerTeamId, challengedTeamId) ==
    /\ IF ExistingChallenge(cache[c].challenges, challengerTeamId, challengedTeamId)
       THEN /\ last' = Outcome("createChallenge", "duplicate", NULL)
            /\ UNCHANGED <<dbChallenges, cache>>
       ELSE /\ Len(dbChallenges) < limits.challenges
            /\ dbChallenges' = Append(dbChallenges,
                                      NewChallenge(challengerTeamId, challengedTeamId))
            /\ cache' = FetchChallenges(c)
            /\ last' = Outcome("createChallenge", "ok", Len(dbChallenges) + 1)
    /\ UNCHANGED <<dbTeams, dbProfiles, dbJoinRequests>>
    /\ UNCHANGED others

respondToChallenge(c, challengeId, accept) ==
    /\ dbChallenges' = [dbChallenges EXCEPT
                          ![challengeId].status = IF accept THEN "accepted" ELSE "declined"]
    /\ last' = Outcome("respondToChallenge", "ok", challengeId)
    /\ UNCHANGED <<dbTeams, dbProfiles, dbJoinRequests, cache>>
    /\ UNCHANGED others

\* UPDATE challenges SET challenger_sets = ..., status = 'completed'
UpdateScore(C, challengeId, challengerSets, challengedSets, submittedByTeamId) ==
    [C EXCEPT ![challengeId].challenger_sets = challengerSets,
              ![challengeId].challenged_sets = challengedSets,
              ![challengeId].score_submitted_by = submittedByTeamId,
              ![challengeId].status = "completed"]

submitScore(c, challengeId, challengerSets, challengedSets, submittedByTeamId) ==
    /\ dbChallenges' = UpdateScore(dbChallenges, challengeId, challengerSets,
                                   challengedSets, submittedByTeamId)
    /\ cache' = FetchChallenges(c)
    /\ last' = Outcome("submitScore", "ok", challengeId)
    /\ UNCHANGED <<dbTeams, dbProfiles, dbJoinRequests>>
    /\ UNCHANGED others

\* faulty variant: the dispute keeps the submitting team
ResetScoreKeepSubmitter(C, challengeId) ==
    [C EXCEPT ![challengeId].challenger_sets = NullSets,
              ![challengeId].challenged_sets = NullSets,
              ![challengeId].status = "accepted"]

\* UPDATE challenges SET challenger_sets = null, ... (the dispute)
ResetScore(C, challengeId) ==
    [C EXCEPT ![challengeId].challenger_sets = NullSets,
              ![challengeId].challenged_sets = NullSets,
              ![challengeId].status = "accepted",
              ![challengeId].score_submitted_by = NULL]

\* UPDATE challenges SET score_validated = true, winner_id = ..
MarkValidated(C, challengeId, winnerId) ==
    [C EXCEPT ![challengeId].score_validated = TRUE,
              ![challengeId].winner_id = winnerId]

\* faulty variant: the dispute runs the position update
DisputeScoreMovesTeams(c, challengeId) ==
    /\ dbChallenges' = ResetScore(dbChallenges, challengeId)
    /\ dbTeams' = RankingUpdate(dbTeams, dbChallenges[challengeId].challenger_team_id,
                                dbChallenges[challengeId].challenged_team_id)
    /\ cache' = RefreshData(c)
    /\ last' = Outcome("validateScore(false)", "ok", challengeId)

\* validateScore(challengeId, false): dispute
DisputeScore(c, challengeId) ==
    /\ dbChallenges' = ResetScore(dbChallenges, challengeId)
    /\ dbTeams' = dbTeams
    /\ cache' = RefreshData(c)
    /\ last' = Outcome("validateScore(false)", "ok", challengeId)

\* faulty variant: the positions are updated whoever won
RunsRankingAlways(challenge, winnerId) == TRUE

\* "Update positions if challenger won"
RunsRanking(challenge, winnerId) == winnerId = challenge.challenger_team_id

\* validateScore(challengeId, true): the winner is computed from the cached
\* challenge, the teams are read fresh from the store
ConfirmScore(c, challengeId) ==
    LET challenge == cache[c].challenges[challengeId]
        winnerId == WinnerId(challenge)
    IN /\ dbChallenges' = MarkValidated(dbChallenges, challengeId, winnerId)
       /\ dbTeams' = IF RunsRanking(challenge, winnerId)
                     THEN RankingUpdate(dbTeams, challenge.challenger_team_id,
                                        challenge.challenged_team_id)
                     ELSE dbTeams
       /\ cache' = RefreshData(c)
       /\ last' = Outcome("validateScore(true)", "ok", challengeId)

validateScore(c, challengeId, valid) ==
    /\ UNCHANGED <<dbProfiles, dbJoinRequests>>
    /\ IF challengeId \notin 1..Len(cache[c].challenges)
          \/ ~HasScore(cache[c].challenges[challengeId])
       THEN /\ last' = Outcome("validateScore", "ignored", challengeId)
            /\ UNCHANGED <<dbTeams, dbChallenges, cache>>
       ELSE IF valid THEN ConfirmScore(c, challengeId)
                     ELSE DisputeScore(c, challengeId)
    /\ UNCHANGED others

\* Realtime subscription: a change of a table makes the client fetch it again
RealtimeTeams(c) ==
    /\ cache[c].teams # dbTeams
    /\ cache' = [cache EXCEPT ![c].teams = dbTeams]
    /\ UNCHANGED <<dbTeams, dbChallenges, dbProfiles, dbJoinRequests, last>>
    /\ UNCHANGED others

RealtimeChallenges(c) ==
    /\ cache[c].challenges # dbChallenges
    /\ cache' = [cache EXCEPT ![c].challenges = dbChallenges]
    /\ UNCHANGED <<dbTeams, dbChallenges, dbProfiles, dbJoinRequests, last>>
    /\ UNCHANGED others

\* the join request is sent by the signed-in user, who is the client
requestToJoin(c, teamId) ==
    /\ Len(dbJoinRequests) < limits.requests
    /\ dbJoinRequests' = Append(dbJoinRequests,
                                [user_id |-> c, team_id |-> teamId, status |-> "pending"])
    /\ last' = Outcome("requestToJoin", "ok", Len(dbJoinRequests) + 1)
    /\ UNCHANGED <<dbTeams, dbChallenges, dbProfiles, cache>>
    /\ UNCHANGED others

\* teamData.profiles?.length of the team read fresh from the store
MemberCount(P, teamId) == Cardinality({ u \in DOMAIN P : P[u] = teamId })

respondToJoinRequest(c, requestId, accept) ==
    /\ UNCHANGED <<dbTeams, dbChallenges>>
    /\ IF requestId \notin 1..Len(cache[c].joinRequests)
       THEN /\ last' = Outcome("respondToJoinRequest", "not found", requestId)
            /\ UNCHANGED <<dbProfiles, dbJoinRequests, cache>>
       ELSE LET request == cache[c].joinRequests[requestId]
            IN IF accept /\ MemberCount(dbProfiles, request.team_id) >= TeamCapacity
               THEN /\ last' = Outcome("respondToJoinRequest", "team full", requestId)
                    /\ UNCHANGED <<dbProfiles, dbJoinRequests, cache>>
               ELSE /\ dbProfiles' = IF accept
                                     THEN [dbProfiles EXCEPT ![request.user_id] = request.team_id]
                                     ELSE dbProfiles
                    /\ dbJoinRequests' = [dbJoinRequests EXCEPT ![requestId].status =
                                            IF accept THEN "accepted" ELSE "declined"]
                    /\ cache' = RefreshData(c)
                    /\ last' = Outcome("respondToJoinRequest", "ok", requestId)
    /\ UNCHANGED others

RealtimeJoinRequests(c) ==
    /\ cache[c].joinRequests # dbJoinRequests
    /\ cache' = [cache EXCEPT ![c].joinRequests = dbJoinRequests]
    /\ UNCHANGED <<dbTeams, dbChallenges, dbProfiles, dbJoinRequests, last>>
    /\ UNCHANGED others

Sides(ch) == {ch.challenger_team_id, ch.challenged_team_id}

----------------------------------------------------------------------------
\* Spec: one client drives the store through every operation, one call at
\* a time, from the empty store.

Idle == [pc |-> "idle", id |-> NULL, winnerId |-> NULL, league |-> "mens",
         loserPosition |-> NULL, winnerOldPosition |-> NULL, teamsToShift |-> <<>>]
NoElig == [pc |-> "none"]
NoCalls == [c \in Clients |-> [challengingTeamId |-> NULL, inflight |-> <<>>]]
\* parseInt of an empty field
NaN == 1000

isNaN(x) == x = NaN

\* useState({ set1c: '', ... }): every field of the dialog empty
EmptyScores == [set1c |-> NaN, set1d |-> NaN, set2c |-> NaN,
                set2d |-> NaN, set3c |-> NaN, set3d |-> NaN]
NoScores == [c \in Clients |-> EmptyScores]
NoJoins == [c \in Clients |-> [pc |-> "idle", requestId |-> NULL]]
EmptyCache == [c \in Clients |-> [teams |-> <<>>, challenges |-> <<>>,
                                  joinRequests |-> <<>>]]
NoTeam == [u \in Clients |-> NULL]

Init ==
    /\ dbTeams = <<>>
    /\ dbChallenges = <<>>
    /\ dbProfiles = NoTeam
    /\ dbJoinRequests = <<>>
    /\ cache = EmptyCache
    /\ settings = NoSettings
    /\ now = 0
    /\ last = Outcome("init", "ok", NULL)
    /\ vs = [c \in Clients |-> Idle]
    /\ cc = NoCalls
    /\ scores = NoScores
    /\ rj = NoJoins
    /\ elig = NoElig
    /\ limits = [teams |-> MaxTeams, challenges |-> MaxChallenges, requests |-> 0]

Caller == {"c1"}

Next ==
    \/ \E c \in Caller, league \in Leagues : createTeam(c, league)
    \/ \E c \in Caller, a, b \in TeamIds(dbTeams) : createChallenge(c, a, b)
    \/ \E c \in Caller, i \in 1..Len(dbChallenges), accept \in BOOLEAN :
          respondToChallenge(c, i, accept)
    \/ \E c \in Caller, i \in 1..Len(dbChallenges), s \in ScoreInputs :
          \E by \in Sides(dbChallenges[i]) : submitScore(c, i, s[1], s[2], by)
    \/ \E c \in Caller, i \in 1..Len(dbChallenges), valid \in BOOLEAN :
          validateScore(c, i, valid)
    \/ \E c \in Caller : RealtimeChallenges(c)

Spec == Init /\ [][Next]_vars

LeagueTeams(T, league) == { j \in TeamIds(T) : T[j].league = league }

\* The positions of a league are exactly 1..N
Dense(T, league) ==
    { T[j].position : j \in LeagueTeams(T, league) }
        = 1..Cardinality(LeagueTeams(T, league))

\* C1: whatever createTeam and validateScore calls have run to completion,
\* the positions of each league are a dense permutation of 1..N (no
\* duplicate, no gap, nobody left at the temporary position), and a team just
\* created is at the bottom of its league, at position N + 1.
C1_DensePermutation ==
    /\ \A league \in Leagues : Dense(dbTeams, league)
    /\ (last.op = "createTeam" /\ last.result = "ok") =>
          dbTeams[last.id].position
              = Cardinality(LeagueTeams(dbTeams, dbTeams[last.id].league))

\* a team is created after a ranking update has moved teams of its league
C1_Witness ==
    /\ last.op = "createTeam" /\ last.result = "ok"
    /\ \E j \in LeagueTeams(dbTeams, dbTeams[last.id].league) :
          dbTeams[j].previous_position > dbTeams[j].position + 1

----------------------------------------------------------------------------
\* SpecRank: a ladder of RankTeams teams created in order, on which two
\* challenges have been created and their scores submitted; the scores are
\* then confirmed, in any order and any number of times.

RankTeams == 5

Ladder(n) == [j \in 1..n |-> [league |-> "mens", position |-> j, previous_position |-> j]]

\* the row of a challenge whose score s was submitted by team by
Submitted(a, b, s, by) ==
    [NewChallenge(a, b) EXCEPT !.challenger_sets = s[1], !.challenged_sets = s[2],
                               !.score_submitted_by = by, !.status = "completed"]

TwoSetScores == { s \in ScoreInputs : Len(s[1]) = 2 }

InitRank ==
    /\ dbTeams = Ladder(RankTeams)
    /\ \E a1, b1, a2, b2 \in 1..RankTeams, s1, s2 \in TwoSetScores :
          /\ a1 # b1 /\ a2 # b2 /\ {a1, b1} # {a2, b2}
          /\ dbChallenges = <<Submitted(a1, b1, s1, a1), Submitted(a2, b2, s2, a2)>>
    /\ dbProfiles = [u \in Clients |-> IF u \in Caller THEN RankTeams ELSE NULL]
    /\ dbJoinRequests = <<>>
    /\ cache = [c \in Clients |-> [teams |-> dbTeams, challenges |-> dbChallenges,
                                    joinRequests |-> <<>>]]
    /\ settings = NoSettings
    /\ now = 0
    /\ last = Outcome("submitScore", "ok", 2)
    /\ vs = [c \in Clients |-> Idle]
    /\ cc = NoCalls
    /\ scores = NoScores
    /\ rj = NoJoins
    /\ elig = NoElig
    /\ limits = [teams |-> RankTeams, challenges |-> 2, requests |-> 0]

NextRank ==
    \E c \in Caller, i \in 1..Len(dbChallenges) : validateScore(c, i, TRUE)

SpecRank == InitRank /\ [][NextRank]_vars

\* C2: when a validation records a win of the challenger, at position w,
\* over a team of its league at position l < w, every team of the league
\* that was at a position in l..w-1 is one position lower, with its old
\* position as previous position, the challenger is at l with previous
\* position w, and every other team is as it was.
C2_ShiftAndPlace ==
    [][ LET ch == dbChallenges'[last'.id]
            cr == ch.challenger_team_id
            cd == ch.challenged_team_id
            w  == dbTeams[cr].position
            l  == dbTeams[cd].position
        IN (/\ last'.op = "validateScore(true)"
            /\ ch.winner_id = cr
            /\ dbTeams[cr].league = dbTeams[cd].league
            /\ l < w)
           => \A j \in TeamIds(dbTeams) :
                 IF j = cr
                 THEN dbTeams'[j].position = l /\ dbTeams'[j].previous_position = w
                 ELSE IF /\ dbTeams[j].league = dbTeams[cr].league
                         /\ l <= dbTeams[j].position
                         /\ dbTeams[j].position < w
                 THEN /\ dbTeams'[j].position = dbTeams[j].position + 1
                      /\ dbTeams'[j].previous_position = dbTeams[j].position
                 ELSE dbTeams'[j] = dbTeams[j] ]_vars

\* a challenger has just climbed three places on a ladder that an earlier
\* result had already reordered
C2_Witness ==
    /\ last.op = "validateScore(true)"
    /\ LET ch == dbChallenges[last.id]
           other == dbChallenges[3 - last.id]
       IN /\ ch.winner_id = ch.challenger_team_id
          /\ dbTeams[ch.challenger_team_id].previous_position
                = dbTeams[ch.challenger_team_id].position + 3
          /\ other.score_validated
          /\ other.winner_id = other.challenger_team_id
          /\ dbTeams[other.challenger_team_id].position # other.challenger_team_id
----------------------------------------------------------------------------
\* SpecConc: validateScore(accept = true) as the store sees it, one request
\* at a time.  Two clients confirm scores on the same ladder; every await
\* of a call is a point where the other client's requests may be served.

ConcTeams == 4

ChallengerWins == CHOOSE s \in ScoreInputs : Len(s[1]) = 2 /\ SetsWon(s[1], s[2]) = 2

\* validateScore(id, true) up to its first await: the challenge and its
\* score are taken from the client's cache
VsCall(c, challengeId) ==
    /\ vs[c].pc = "idle"
    /\ challengeId \in 1..Len(cache[c].challenges)
    /\ HasScore(cache[c].challenges[challengeId])
    /\ vs' = [vs EXCEPT ![c] = [Idle EXCEPT
                 !.pc = "mark", !.id = challengeId,
                 !.winnerId = WinnerId(cache[c].challenges[challengeId])]]
    /\ UNCHANGED <<dbTeams, dbChallenges, dbProfiles, dbJoinRequests, cache,
                   settings, now, last, elig, cc, scores, rj, limits>>

VsChallenge(c) == cache[c].challenges[vs[c].id]

\* await update challenges set score_validated, winner_id
VsMark(c) ==
    /\ vs[c].pc = "mark"
    /\ dbChallenges' = MarkValidated(dbChallenges, vs[c].id, vs[c].winnerId)
    /\ vs' = [vs EXCEPT ![c].pc = IF RunsRanking(VsChallenge(c), vs[c].winnerId)
                                  THEN "fetchFresh" ELSE "refresh"]
    /\ UNCHANGED <<dbTeams, dbProfiles, dbJoinRequests, cache,
                   settings, now, last, elig, cc, scores, rj, limits>>

\* await select ... from teams where id in (challenger, challenged)
VsFetchFresh(c) ==
    /\ vs[c].pc = "fetchFresh"
    /\ LET cr == VsChallenge(c).challenger_team_id
           cd == VsChallenge(c).challenged_team_id
       IN vs' = [vs EXCEPT ![c] =
                   IF cr # cd /\ dbTeams[cr].position > dbTeams[cd].position
                   THEN [@ EXCEPT !.pc = "park",
                                  !.league = dbTeams[cr].league,
                                  !.loserPosition = dbTeams[cd].position,
                                  !.winnerOldPosition = dbTeams[cr].position]
                   ELSE [@ EXCEPT !.pc = "refresh"]]
    /\ UNCHANGED <<dbTeams, dbChallenges, dbProfiles, dbJoinRequests, cache,
                   settings, now, last, elig, cc, scores, rj, limits>>

\* faulty variant: the winner is not parked before the shifts
VsParkSkipped(c) ==
    /\ vs[c].pc = "park"
    /\ vs' = [vs EXCEPT ![c].pc = "select"]
    /\ UNCHANGED <<dbTeams, dbChallenges, dbProfiles, dbJoinRequests, cache,
                   settings, now, last, elig, cc, scores, rj, limits>>

\* Step 1: await update teams set position = 99999 where id = challenger
VsPark(c) ==
    /\ vs[c].pc = "park"
    /\ dbTeams' = UpdatePosition(dbTeams, VsChallenge(c).challenger_team_id, TempPosition)
    /\ vs' = [vs EXCEPT ![c].pc = "select"]
    /\ UNCHANGED <<dbChallenges, dbProfiles, dbJoinRequests, cache,
                   settings, now, last, elig, cc, scores, rj, limits>>

\* Step 2: await select id, position from teams where ... order by position desc
VsSelect(c) ==
    /\ vs[c].pc = "select"
    /\ LET teamsToShift == SelectTeamsToShift(dbTeams, vs[c].league,
                                              vs[c].loserPosition, vs[c].winnerOldPosition)
       IN vs' = [vs EXCEPT ![c].teamsToShift = teamsToShift,
                           ![c].pc = IF teamsToShift = <<>> THEN "place" ELSE "shift"]
    /\ UNCHANGED <<dbTeams, dbChallenges, dbProfiles, dbJoinRequests, cache,
                   settings, now, last, elig, cc, scores, rj, limits>>

\* Step 2, the loop: await update teams set previous_position, position
VsShift(c) ==
    /\ vs[c].pc = "shift"
    /\ dbTeams' = ShiftTeam(dbTeams, Head(vs[c].teamsToShift))
    /\ vs' = [vs EXCEPT ![c].teamsToShift = Tail(@),
                        ![c].pc = IF Tail(vs[c].teamsToShift) = <<>>
                                  THEN "place" ELSE "shift"]
    /\ UNCHANGED <<dbChallenges, dbProfiles, dbJoinRequests, cache,
                   settings, now, last, elig, cc, scores, rj, limits>>

\* Step 3: await update teams set previous_position, position where id = challenger
VsPlace(c) ==
    /\ vs[c].pc = "place"
    /\ dbTeams' = UpdatePositionPrev(dbTeams, VsChallenge(c).challenger_team_id,
                                     vs[c].loserPosition, vs[c].winnerOldPosition)
    /\ vs' = [vs EXCEPT ![c].pc = "refresh"]
    /\ UNCHANGED <<dbChallenges, dbProfiles, dbJoinRequests, cache,
                   settings, now, last, elig, cc, scores, rj, limits>>

\* await refreshData(), and the call returns
VsRefresh(c) ==
    /\ vs[c].pc = "refresh"
    /\ UNCHANGED <<dbTeams, dbChallenges, dbProfiles, dbJoinRequests>>
    /\ cache' = RefreshData(c)
    /\ vs' = [vs EXCEPT ![c].pc = "done"]
    /\ last' = Outcome("validateScore(true)", "ok", vs[c].id)
    /\ UNCHANGED <<settings, now, elig, cc, scores, rj, limits>>

InitConc ==
    /\ dbTeams = Ladder(ConcTeams)
    /\ \E a1, b1, a2, b2 \in 1..ConcTeams :
          /\ a1 > b1 /\ a2 > b2 /\ {a1, b1} # {a2, b2}
          /\ dbChallenges = <<Submitted(a1, b1, ChallengerWins, a1),
                              Submitted(a2, b2, ChallengerWins, a2)>>
    /\ dbProfiles = [u \in Clients |-> IF u \in Caller THEN ConcTeams ELSE NULL]
    /\ dbJoinRequests = <<>>
    /\ cache = [c \in Clients |-> [teams |-> dbTeams, challenges |-> dbChallenges,
                                    joinRequests |-> <<>>]]
    /\ settings = NoSettings
    /\ now = 0
    /\ last = Outcome("submitScore", "ok", 2)
    /\ vs = [c \in Clients |-> Idle]
    /\ cc = NoCalls
    /\ scores = NoScores
    /\ rj = NoJoins
    /\ elig = NoElig
    /\ limits = [teams |-> ConcTeams, challenges |-> 2, requests |-> 0]

NextConc ==
    \/ \E c \in Clients, i \in 1..Len(dbChallenges) : VsCall(c, i)
    \/ \E c \in Clients : VsMark(c)
    \/ \E c \in Clients : VsFetchFresh(c)
    \/ \E c \in Clients : VsPark(c)
    \/ \E c \in Clients : VsSelect(c)
    \/ \E c \in Clients : VsShift(c)
    \/ \E c \in Clients : VsPlace(c)
    \/ \E c \in Clients : VsRefresh(c)
    \/ \E c \in Clients : RealtimeTeams(c)

SpecConc == InitConc /\ [][NextConc]_vars

ConcDone == \A c \in Clients : vs[c].pc = "done"

\* C3: when two clients have each confirmed a win of a challenger on the same
\* league, however the requests of the two calls were interleaved, the
\* positions of the league are a dense permutation of 1..N.
C3_SerializedRanking ==
    ConcDone => \A league \in Leagues : Dense(dbTeams, league)

----------------------------------------------------------------------------
\* Eligibility

\* Time is counted in ticks, TicksPerDay to a day; days are numbered, and
\* CutoverDay is the day of the default challenge_restriction_date.
TicksPerDay == 2
CutoverDay == 2
DefaultMaxDifference == 4

\* new Date('YYYY-MM-DD'): the first instant of that day
DateToInstant(day) == day * TicksPerDay

DefaultSettings == [loaded |-> TRUE, challengeRestrictionDate |-> CutoverDay,
                    maxPositionDifference |-> DefaultMaxDifference]

\* the Team object the client holds for a row of teams
TeamObject(teams, id) ==
    [id |-> id, league |-> teams[id].league, position |-> teams[id].position]

\* faulty variant: the distance limit applies whatever the date
canChallengeAlwaysRestricted(challengerTeam, challengedTeam) ==
    /\ challengerTeam.league = challengedTeam.league
    /\ challengerTeam.id # challengedTeam.id
    /\ settings.loaded
    /\ challengerTeam.position - challengedTeam.position > 0
    /\ challengerTeam.position - challengedTeam.position <= settings.maxPositionDifference

\* faulty variant: the limit starts strictly after the first instant of the date
canChallengeStrictlyAfter(challengerTeam, challengedTeam) ==
    /\ challengerTeam.league = challengedTeam.league
    /\ challengerTeam.id # challengedTeam.id
    /\ settings.loaded
    /\ IF now > DateToInstant(settings.challengeRestrictionDate)
       THEN /\ challengerTeam.position - challengedTeam.position > 0
            /\ challengerTeam.position - challengedTeam.position
                 <= settings.maxPositionDifference
       ELSE challengerTeam.position > challengedTeam.position

\* faulty variant: the two teams are not compared by id
canChallengeNoIdCheck(challengerTeam, challengedTeam) ==
    /\ challengerTeam.league = challengedTeam.league
    /\ settings.loaded
    /\ IF now >= DateToInstant(settings.challengeRestrictionDate)
       THEN /\ challengerTeam.position - challengedTeam.position > 0
            /\ challengerTeam.position - challengedTeam.position
                 <= settings.maxPositionDifference
       ELSE challengerTeam.position > challengedTeam.position

canChallenge(challengerTeam, challengedTeam) ==
    IF challengerTeam.league # challengedTeam.league THEN FALSE
    ELSE IF challengerTeam.id = challengedTeam.id THEN FALSE
    ELSE IF ~settings.loaded THEN FALSE
    ELSE IF now >= DateToInstant(settings.challengeRestrictionDate)
         THEN LET positionDiff == challengerTeam.position - challengedTeam.position
              IN positionDiff > 0 /\ positionDiff <= settings.maxPositionDifference
         ELSE challengerTeam.position > challengedTeam.position

\* SpecElig: canChallenge is called once, on any two teams, with the
\* settings loaded or not, before, at or after the cutover.

MaxPosition == 10
MaxDifference == 5

EligTeams == [id : {1, 2}, league : Leagues, position : 1..MaxPosition]

InitElig ==
    /\ dbTeams = <<>>
    /\ dbChallenges = <<>>
    /\ dbProfiles = NoTeam
    /\ dbJoinRequests = <<>>
    /\ cache = EmptyCache
    /\ settings \in {NoSettings}
                    \cup [loaded : {TRUE}, challengeRestrictionDate : {CutoverDay},
                          maxPositionDifference : 1..MaxDifference]
    /\ now \in 0..(DateToInstant(CutoverDay + 1) - 1)
    /\ last = Outcome("init", "ok", NULL)
    /\ vs = [c \in Clients |-> Idle]
    /\ cc = NoCalls
    /\ scores = NoScores
    /\ rj = NoJoins
    /\ elig \in [pc : {"args"}, challenger : EligTeams, challenged : EligTeams,
                 result : {FALSE}]
    /\ limits = [teams |-> 0, challenges |-> 0, requests |-> 0]

EvalCanChallenge ==
    /\ elig.pc = "args"
    /\ elig' = [elig EXCEPT !.pc = "returned",
                            !.result = canChallenge(elig.challenger, elig.challenged)]
    /\ UNCHANGED <<dbTeams, dbChallenges, dbProfiles, dbJoinRequests, cache,
                   settings, now, last, vs, cc, scores, rj, limits>>

NextElig == EvalCanChallenge

SpecElig == InitElig /\ [][NextElig]_vars

\* two different teams of one league, with the settings loaded
Comparable ==
    /\ elig.pc = "returned"
    /\ settings.loaded
    /\ elig.challenger.league = elig.challenged.league
    /\ elig.challenger.id # elig.challenged.id

BeforeCutover == now < DateToInstant(settings.challengeRestrictionDate)

\* C8: before the cutover date, for two different teams of one league with
\* the settings loaded, canChallenge is true exactly when the challenger's
\* position is greater than the challenged team's, whatever the distance.
C8_BeforeCutoverAnyHigherRank ==
    (Comparable /\ BeforeCutover) =>
        (elig.result <=> elig.challenger.position > elig.challenged.position)

\* before the cutover the last team may challenge the first, further away
\* than the maximum difference
C8_Witness ==
    /\ Comparable /\ BeforeCutover
    /\ elig.challenger.position = MaxPosition
    /\ elig.challenged.position = 1
    /\ settings.maxPositionDifference = DefaultMaxDifference
    /\ elig.result

\* C9: on and after the cutover date, for two different teams of one league
\* with the settings loaded, canChallenge is true exactly when
\* 0 < challenger.position - challenged.position <= maxPositionDifference.
C9_AfterCutoverBoundedDistance ==
    (Comparable /\ ~BeforeCutover) =>
        (elig.result <=>
            /\ 0 < elig.challenger.position - elig.challenged.position
            /\ elig.challenger.position - elig.challenged.position
                 <= settings.maxPositionDifference)

\* at the first instant of the cutover date, with a maximum difference of 4,
\* the team at position 10 may challenge position 6
C9_Witness ==
    /\ Comparable
    /\ now = DateToInstant(settings.challengeRestrictionDate)
    /\ settings.maxPositionDifference = DefaultMaxDifference
    /\ elig.challenger.position = MaxPosition
    /\ elig.challenged.position = MaxPosition - DefaultMaxDifference
    /\ elig.result

\* C10: canChallenge is false whenever the teams are of different leagues,
\* are the same team, or the settings are not loaded, whatever the positions
\* and the date.
C10_FailClosed ==
    (/\ elig.pc = "returned"
     /\ \/ elig.challenger.league # elig.challenged.league
        \/ elig.challenger.id = elig.challenged.id
        \/ ~settings.loaded)
    => ~elig.result

\* the settings are not loaded: a challenge of a higher ranked team of the
\* same league is refused
C10_Witness ==
    /\ elig.pc = "returned"
    /\ ~settings.loaded
    /\ elig.challenger.league = elig.challenged.league
    /\ elig.challenger.id # elig.challenged.id
    /\ elig.challenger.position > elig.challenged.position
    /\ ~elig.result

----------------------------------------------------------------------------
\* SpecChallenge: two clients create and answer challenges on a ladder of
\* three teams, two of one league and one of the other.

ChallengeRows == 2

MixedLadder == Ladder(2) \o <<[league |-> "womens", position |-> 1, previous_position |-> 1]>>

InitChallenge ==
    /\ dbTeams = MixedLadder
    /\ dbChallenges = <<>>
    /\ dbProfiles = [u \in Clients |-> IF u = "c1" THEN 1 ELSE 2]
    /\ dbJoinRequests = <<>>
    /\ cache = [c \in Clients |-> [teams |-> dbTeams, challenges |-> <<>>,
                                    joinRequests |-> <<>>]]
    /\ settings = DefaultSettings
    /\ now \in {0, DateToInstant(CutoverDay)}
    /\ last = Outcome("init", "ok", NULL)
    /\ vs = [c \in Clients |-> Idle]
    /\ cc = NoCalls
    /\ scores = NoScores
    /\ rj = NoJoins
    /\ elig = NoElig
    /\ limits = [teams |-> Len(MixedLadder), challenges |-> ChallengeRows, requests |-> 0]

NextChallenge ==
    \/ \E c \in Clients, a, b \in TeamIds(dbTeams) : createChallenge(c, a, b)
    \/ \E c \in Clients, i \in 1..Len(dbChallenges), accept \in BOOLEAN :
          respondToChallenge(c, i, accept)
    \/ \E c \in Clients : RealtimeChallenges(c)

SpecChallenge == InitChallenge /\ [][NextChallenge]_vars

\* C5: between any two teams there is at most one active challenge
\* (pending, accepted, or completed and not validated), in either direction.
C5_AtMostOneActive ==
    \A i, j \in 1..Len(dbChallenges) :
        (/\ i < j
         /\ IsActive(dbChallenges[i])
         /\ IsActive(dbChallenges[j]))
        => ~Between(dbChallenges[i], dbChallenges[j].challenger_team_id,
                    dbChallenges[j].challenged_team_id)

NewRow == dbChallenges'[Len(dbChallenges')]

\* C6: while the store holds an active challenge between two teams, a
\* createChallenge call for that pair, in either direction, inserts nothing.
C6_DuplicateRejected ==
    [][ Len(dbChallenges') > Len(dbChallenges) =>
          ~ExistingChallenge(dbChallenges, NewRow.challenger_team_id,
                             NewRow.challenged_team_id) ]_vars

\* C7: createChallenge inserts a challenge only if canChallenge holds of
\* the two teams at the time of the call; so the challenger is never the
\* challenged team.
C7_OnlyEligibleCreated ==
    [][ Len(dbChallenges') > Len(dbChallenges) =>
          /\ NewRow.challenger_team_id # NewRow.challenged_team_id
          /\ canChallenge(TeamObject(dbTeams, NewRow.challenger_team_id),
                          TeamObject(dbTeams, NewRow.challenged_team_id)) ]_vars

----------------------------------------------------------------------------
\* SpecAll: as Spec, with the join requests too, on smaller tables.

AllTeams == 3
AllChallenges == 1
AllRequests == 1

InitAll ==
    /\ dbTeams = <<>>
    /\ dbChallenges = <<>>
    /\ dbProfiles = NoTeam
    /\ dbJoinRequests = <<>>
    /\ cache = EmptyCache
    /\ settings = NoSettings
    /\ now = 0
    /\ last = Outcome("init", "ok", NULL)
    /\ vs = [c \in Clients |-> Idle]
    /\ cc = NoCalls
    /\ scores = NoScores
    /\ rj = NoJoins
    /\ elig = NoElig
    /\ limits = [teams |-> AllTeams, challenges |-> AllChallenges,
                 requests |-> AllRequests]

NextAll ==
    \/ Next
    \/ \E c \in Caller, t \in TeamIds(dbTeams) : requestToJoin(c, t)
    \/ \E c \in Caller, r \in 1..Len(dbJoinRequests), accept \in BOOLEAN :
          respondToJoinRequest(c, r, accept)
    \/ \E c \in Caller : RealtimeJoinRequests(c)

SpecAll == InitAll /\ [][NextAll]_vars

\* C4: a step changes the position or previous position of a team only if
\* it is validateScore(accept = true) recording the challenger as winner;
\* every other operation, and a validation won by the challenged team,
\* leaves every team as it was.
C4_PositionsChangeOnlyOnChallengerWin ==
    [][ (\E j \in TeamIds(dbTeams) : dbTeams'[j] # dbTeams[j]) =>
          /\ last'.op = "validateScore(true)"
          /\ dbChallenges'[last'.id].score_validated
          /\ dbChallenges'[last'.id].winner_id
                = dbChallenges'[last'.id].challenger_team_id ]_vars

\* a validation won by the challenged team, with the challenger ranked below
C4_Witness ==
    /\ last.op = "validateScore(true)"
    /\ LET ch == dbChallenges[last.id]
       IN /\ ch.winner_id = ch.challenged_team_id
          /\ ch.challenger_team_id # ch.challenged_team_id
          /\ dbTeams[ch.challenger_team_id].league = dbTeams[ch.challenged_team_id].league
          /\ dbTeams[ch.challenger_team_id].position
                > dbTeams[ch.challenged_team_id].position

----------------------------------------------------------------------------
\* Confirmation of a score

\* the step is a call validateScore(id, true) on a challenge that the store
\* holds as completed and not validated
ConfirmsUnvalidated ==
    /\ last'.op = "validateScore(true)"
    /\ dbChallenges[last'.id].status = "completed"
    /\ ~dbChallenges[last'.id].score_validated
    /\ HasScore(dbChallenges[last'.id])

\* C11: validateScore(id, true) on a completed, unvalidated challenge sets
\* score_validated, records as winner the side that won more sets (a set is
\* won by the side with strictly more games), and changes the positions only
\* if that winner is the challenger, who then takes the challenged team's
\* position when ranked below it.
C11_ConfirmRecordsWinner ==
    [][ ConfirmsUnvalidated =>
          LET before == dbChallenges[last'.id]
              after  == dbChallenges'[last'.id]
              cr == before.challenger_team_id
              cd == before.challenged_team_id
              challengerWon ==
                  Cardinality({ i \in 1..Len(before.challenger_sets) :
                                  before.challenger_sets[i] > before.challenged_sets[i] })
                  > Cardinality({ i \in 1..Len(before.challenger_sets) :
                                  before.challenged_sets[i] > before.challenger_sets[i] })
          IN /\ after.score_validated
             /\ after.winner_id = IF challengerWon THEN cr ELSE cd
             /\ after.challenger_sets = before.challenger_sets
             /\ after.challenged_sets = before.challenged_sets
             /\ ~challengerWon => dbTeams' = dbTeams
             /\ (/\ challengerWon
                 /\ cr # cd
                 /\ dbTeams[cr].league = dbTeams[cd].league
                 /\ dbTeams[cr].position > dbTeams[cd].position)
                => /\ dbTeams'[cr].position = dbTeams[cd].position
                   /\ dbTeams'[cd].position = dbTeams[cd].position + 1 ]_vars

\* a challenger that won the match in three sets has been recorded as
\* winner and has climbed
C11_Witness ==
    /\ last.op = "validateScore(true)"
    /\ LET ch == dbChallenges[last.id]
       IN /\ Len(ch.challenger_sets) = 3
          /\ ch.score_validated
          /\ ch.winner_id = ch.challenger_team_id
          /\ dbTeams[ch.challenger_team_id].previous_position
                > dbTeams[ch.challenger_team_id].position

----------------------------------------------------------------------------
\* Dispute of a score

\* the step is a call validateScore(id, false) on a challenge that the store
\* holds as completed and not validated
DisputesUnvalidated ==
    /\ last'.op = "validateScore(false)"
    /\ dbChallenges[last'.id].status = "completed"
    /\ ~dbChallenges[last'.id].score_validated
    /\ HasScore(dbChallenges[last'.id])

\* C12: a dispute, validateScore(id, false), clears both set arrays and the
\* submitting team, sets the status back to accepted, leaves score_validated
\* false and every team as it was: the record is again as createChallenge
\* made it.  From there submitScore can be called again, so that submit,
\* dispute, resubmit can go round any number of times.
C12_DisputeResets ==
    /\ [][ DisputesUnvalidated =>
             /\ dbChallenges'[last'.id] =
                   [challenger_team_id |-> dbChallenges[last'.id].challenger_team_id,
                    challenged_team_id |-> dbChallenges[last'.id].challenged_team_id,
                    status |-> "accepted",
                    challenger_sets |-> <<>>, challenged_sets |-> <<>>,
                    score_submitted_by |-> NULL, score_validated |-> FALSE,
                    winner_id |-> NULL]
             /\ \A i \in 1..Len(dbChallenges) :
                   i # last'.id => dbChallenges'[i] = dbChallenges[i]
             /\ dbTeams' = dbTeams ]_vars
    /\ [](\A i \in 1..Len(dbChallenges) :
            (dbChallenges[i].status = "accepted" /\ ~HasScore(dbChallenges[i]))
            => \A s \in ScoreInputs :
                 ENABLED (/\ submitScore("c1", i, s[1], s[2],
                                         dbChallenges[i].challenger_team_id)
                          /\ dbChallenges'[i].status = "completed"
                          /\ dbChallenges'[i].challenger_sets = s[1]))

\* a score has been disputed: the challenge is accepted, without a score
C12_Witness ==
    /\ last.op = "validateScore(false)"
    /\ dbChallenges[last.id].status = "accepted"
    /\ ~HasScore(dbChallenges[last.id])
    /\ dbChallenges[last.id].score_submitted_by = NULL
    /\ cache["c1"].challenges = dbChallenges

----------------------------------------------------------------------------
\* SpecRound: two leagues with the same ladder and a challenge between the
\* same two positions.  In the first league a score won by the challenged
\* team has been submitted; the teams enter a score when there is none,
\* dispute or confirm a score that is not validated.  The first league can
\* come to another score only through a dispute.

RoundTeams == 3

TwoLadders(n) ==
    [j \in 1..(2 * n) |->
        IF j <= n THEN [league |-> "mens", position |-> j, previous_position |-> j]
        ELSE [league |-> "womens", position |-> j - n, previous_position |-> j - n]]

ChallengedWinsScores == { s \in ScoreInputs : SetsWon(s[2], s[1]) > SetsWon(s[1], s[2]) }

InitRound ==
    /\ dbTeams = TwoLadders(RoundTeams)
    /\ \E a, b \in 1..RoundTeams, s \in ChallengedWinsScores :
          /\ a # b
          /\ dbChallenges = <<Submitted(a, b, s, a),
                              NewChallenge(a + RoundTeams, b + RoundTeams)>>
    /\ dbProfiles = NoTeam
    /\ dbJoinRequests = <<>>
    /\ cache = [c \in Clients |-> [teams |-> dbTeams, challenges |-> dbChallenges,
                                    joinRequests |-> <<>>]]
    /\ settings = NoSettings
    /\ now = 0
    /\ last = Outcome("submitScore", "ok", 1)
    /\ vs = [c \in Clients |-> Idle]
    /\ cc = NoCalls
    /\ scores = NoScores
    /\ rj = NoJoins
    /\ elig = NoElig
    /\ limits = [teams |-> 2 * RoundTeams, challenges |-> 2, requests |-> 0]

\* the "Enter Score" button of a challenge without a score
EnterScore(c, i) ==
    /\ ~(cache[c].challenges[i].status = "completed" /\ HasScore(cache[c].challenges[i]))
    /\ \E s \in ScoreInputs, by \in Sides(dbChallenges[i]) : submitScore(c, i, s[1], s[2], by)

\* the "Confirm" and "Dispute" buttons of a score awaiting validation
AnswerScore(c, i, valid) ==
    /\ cache[c].challenges[i].status = "completed"
    /\ ~cache[c].challenges[i].score_validated
    /\ HasScore(cache[c].challenges[i])
    /\ validateScore(c, i, valid)

NextRound ==
    \/ \E c \in Caller, i \in 1..Len(dbChallenges) : EnterScore(c, i)
    \/ \E c \in Caller, i \in 1..Len(dbChallenges), valid \in BOOLEAN :
          AnswerScore(c, i, valid)

SpecRound == InitRound /\ [][NextRound]_vars

SameScore(ch1, ch2) ==
    /\ ch1.challenger_sets = ch2.challenger_sets
    /\ ch1.challenged_sets = ch2.challenged_sets

\* C13: when the same score has been validated in both leagues, the teams
\* of the two leagues are at the same positions, however many times a score
\* was disputed and submitted again before: submit s', dispute, submit s,
\* confirm ends with the positions of submit s, confirm.
C13_DisputeLeavesNoTrace ==
    (/\ dbChallenges[1].score_validated
     /\ dbChallenges[2].score_validated
     /\ SameScore(dbChallenges[1], dbChallenges[2]))
    => \A j \in 1..RoundTeams :
          dbTeams[j].position = dbTeams[j + RoundTeams].position

\* in the first league the score won by the challenged team was disputed
\* and a score won by the challenger was submitted and confirmed; the second
\* league confirmed that score at once; the challengers have climbed
C13_Witness ==
    /\ dbChallenges[1].score_validated
    /\ dbChallenges[2].score_validated
    /\ SameScore(dbChallenges[1], dbChallenges[2])
    /\ dbChallenges[1].winner_id = dbChallenges[1].challenger_team_id
    /\ dbTeams[dbChallenges[1].challenger_team_id].position
          < dbTeams[dbChallenges[1].challenger_team_id].previous_position
    /\ dbTeams[dbChallenges[2].challenger_team_id].position
          < dbTeams[dbChallenges[2].challenger_team_id].previous_position

----------------------------------------------------------------------------
\* Submission of a score

\* C14: submitScore changes a challenge only if the challenge is accepted,
\* or completed and not validated; on a declined challenge, or a validated
\* one, it fails and leaves the record as it was.
C14_SubmitOnlyWhenActive ==
    [][ \A i \in 1..Len(dbChallenges) :
          (last'.op = "submitScore" /\ last'.result = "ok" /\ last'.id = i
           /\ dbChallenges'[i] # dbChallenges[i])
          => \/ dbChallenges[i].status = "accepted"
             \/ (dbChallenges[i].status = "completed"
                 /\ ~dbChallenges[i].score_validated) ]_vars

----------------------------------------------------------------------------
\* The score dialog of the Challenges screen

\* JS comparison a > b: false when an operand is NaN
Gt(a, b) == ~isNaN(a) /\ ~isNaN(b) /\ a > b

\* faulty variant: any number of games below the winner's loses a set
isValidSetScoreAnyLoser(winnerGames, loserGames) ==
    IF winnerGames = 6 THEN loserGames >= 0 /\ loserGames <= 5
    ELSE IF winnerGames = 7 THEN loserGames >= 0 /\ loserGames <= 6
    ELSE FALSE

isValidSetScore(winnerGames, loserGames) ==
    IF winnerGames = 6 THEN loserGames >= 0 /\ loserGames <= 4
    ELSE IF winnerGames = 7 THEN loserGames = 5 \/ loserGames = 6
    ELSE FALSE

\* the error of validateSetScores, or "valid"
validateSetScores(challengerScore, challengedScore) ==
    IF isNaN(challengerScore) /\ isNaN(challengedScore) THEN "valid"
    ELSE IF isNaN(challengerScore) \/ isNaN(challengedScore)
         THEN "Both scores must be entered for a set"
    ELSE IF challengerScore < 0 \/ challengedScore < 0 THEN "Scores cannot be negative"
    ELSE IF challengerScore > challengedScore
         THEN IF isValidSetScore(challengerScore, challengedScore)
              THEN "valid" ELSE "Invalid score"
    ELSE IF challengedScore > challengerScore
         THEN IF isValidSetScore(challengedScore, challengerScore)
              THEN "valid" ELSE "Invalid score"
    ELSE "Sets cannot end in a tie"

\* a set array as the store keeps it: NaN is sent as null
ToStored(sets) == [i \in 1..Len(sets) |-> IF isNaN(sets[i]) THEN NULL ELSE sets[i]]

One(b) == IF b THEN 1 ELSE 0

\* faulty variant: a match without a winner is let through
\* the form, or "submit"
CheckScoreFormNoWinner(f) ==
    LET challengerSetsWon2 == One(Gt(f.set1c, f.set1d)) + One(Gt(f.set2c, f.set2d))
        challengedSetsWon2 == One(~Gt(f.set1c, f.set1d)) + One(~Gt(f.set2c, f.set2d))
        hasThirdSet == ~isNaN(f.set3c) /\ ~isNaN(f.set3d)
        challengerSetsWon == challengerSetsWon2 + One(hasThirdSet /\ Gt(f.set3c, f.set3d))
        challengedSetsWon == challengedSetsWon2 + One(hasThirdSet /\ ~Gt(f.set3c, f.set3d))
        firstTwoSetsWinner == One(Gt(f.set1c, f.set1d)) + One(Gt(f.set2c, f.set2d))
        firstTwoSetsLosses == One(Gt(f.set1d, f.set1c)) + One(Gt(f.set2d, f.set2c))
    IN IF validateSetScores(f.set1c, f.set1d) # "valid" THEN "Invalid Set 1 Score"
       ELSE IF validateSetScores(f.set2c, f.set2d) # "valid" THEN "Invalid Set 2 Score"
       ELSE IF validateSetScores(f.set3c, f.set3d) # "valid" THEN "Invalid Set 3 Score"
       ELSE IF /\ (challengerSetsWon = 2 \/ challengedSetsWon = 2) /\ hasThirdSet
               /\ (firstTwoSetsWinner = 2 \/ firstTwoSetsLosses = 2)
            THEN "Invalid Match"
       ELSE "submit"

\* handleSubmitScore up to the call of submitScore: the toast that rejects
\* the form, or "submit"
CheckScoreForm(f) ==
    LET challengerSetsWon2 == One(Gt(f.set1c, f.set1d)) + One(Gt(f.set2c, f.set2d))
        challengedSetsWon2 == One(~Gt(f.set1c, f.set1d)) + One(~Gt(f.set2c, f.set2d))
        hasThirdSet == ~isNaN(f.set3c) /\ ~isNaN(f.set3d)
        challengerSetsWon == challengerSetsWon2 + One(hasThirdSet /\ Gt(f.set3c, f.set3d))
        challengedSetsWon == challengedSetsWon2 + One(hasThirdSet /\ ~Gt(f.set3c, f.set3d))
        firstTwoSetsWinner == One(Gt(f.set1c, f.set1d)) + One(Gt(f.set2c, f.set2d))
        firstTwoSetsLosses == One(Gt(f.set1d, f.set1c)) + One(Gt(f.set2d, f.set2c))
    IN IF validateSetScores(f.set1c, f.set1d) # "valid" THEN "Invalid Set 1 Score"
       ELSE IF validateSetScores(f.set2c, f.set2d) # "valid" THEN "Invalid Set 2 Score"
       ELSE IF validateSetScores(f.set3c, f.set3d) # "valid" THEN "Invalid Set 3 Score"
       ELSE IF challengerSetsWon = challengedSetsWon THEN "Invalid Match Result"
       ELSE IF /\ (challengerSetsWon = 2 \/ challengedSetsWon = 2) /\ hasThirdSet
               /\ (firstTwoSetsWinner = 2 \/ firstTwoSetsLosses = 2)
            THEN "Invalid Match"
       ELSE IF challengerSetsWon = 1 /\ challengedSetsWon = 1 /\ ~hasThirdSet
            THEN "Match Incomplete"
       ELSE "submit"

\* the arrays handed to submitScore
FormChallengerSets(f) ==
    IF ~isNaN(f.set3c) /\ ~isNaN(f.set3d) THEN <<f.set1c, f.set2c, f.set3c>>
    ELSE <<f.set1c, f.set2c>>
FormChallengedSets(f) ==
    IF ~isNaN(f.set3c) /\ ~isNaN(f.set3d) THEN <<f.set1d, f.set2d, f.set3d>>
    ELSE <<f.set1d, f.set2d>>

\* the challenge is listed with "Enter Score", or with "Modify" for the team
\* that did not submit the score
MaySubmitScore(c, ch) ==
    /\ dbProfiles[c] \in Sides(ch)
    /\ \/ ch.status = "accepted"
       \/ (ch.status = "completed" /\ ~ch.score_validated)
    /\ LET hasScore == ch.status = "completed" /\ HasScore(ch)
       IN ~hasScore \/ ch.score_submitted_by # dbProfiles[c]

handleSubmitScore(c, selectedChallenge, f) ==
    /\ dbProfiles[c] # NULL
    /\ selectedChallenge \in 1..Len(cache[c].challenges)
    /\ MaySubmitScore(c, cache[c].challenges[selectedChallenge])
    /\ IF CheckScoreForm(f) = "submit"
       THEN submitScore(c, selectedChallenge, ToStored(FormChallengerSets(f)),
                        ToStored(FormChallengedSets(f)), dbProfiles[c])
       ELSE /\ last' = Outcome("handleSubmitScore", CheckScoreForm(f), selectedChallenge)
            /\ UNCHANGED <<dbTeams, dbChallenges, dbProfiles, dbJoinRequests, cache>>
            /\ UNCHANGED others

\* SpecSubmit: the two teams of a challenge fill in the score dialog

FieldValues == {NaN, 3, 6}

ScoreForms == [set1c : FieldValues, set1d : FieldValues, set2c : FieldValues,
               set2d : FieldValues, set3c : FieldValues, set3d : FieldValues]

InitSubmit ==
    /\ dbTeams = Ladder(2)
    /\ dbChallenges = <<NewChallenge(2, 1)>>
    /\ dbProfiles = [u \in Clients |-> IF u = "c1" THEN 2 ELSE 1]
    /\ dbJoinRequests = <<>>
    /\ cache = [c \in Clients |-> [teams |-> dbTeams, challenges |-> dbChallenges,
                                    joinRequests |-> <<>>]]
    /\ settings = NoSettings
    /\ now = 0
    /\ last = Outcome("createChallenge", "ok", 1)
    /\ vs = [c \in Clients |-> Idle]
    /\ cc = NoCalls
    /\ scores = NoScores
    /\ rj = NoJoins
    /\ elig = NoElig
    /\ limits = [teams |-> 2, challenges |-> 1, requests |-> 0]

NextSubmit ==
    \/ \E c \in Clients, i \in 1..Len(dbChallenges), f \in ScoreForms :
          handleSubmitScore(c, i, f)
    \/ \E c \in Clients : RealtimeChallenges(c)

SpecSubmit == InitSubmit /\ [][NextSubmit]_vars

\* a set score of the rules: 6-0 to 6-4, 7-5, 7-6, either way
ValidSet(a, b) ==
    \/ (a = 6 /\ b \in 0..4) \/ (b = 6 /\ a \in 0..4)
    \/ (a = 7 /\ b \in {5, 6}) \/ (b = 7 /\ a \in {5, 6})

\* match validation: sets 1 and 2 valid, a valid third set exactly when the
\* first two are split, and so a winner with two sets
PassesMatchValidation(cs, ds) ==
    /\ Len(cs) = Len(ds)
    /\ Len(cs) \in {2, 3}
    /\ \A i \in 1..Len(cs) : ValidSet(cs[i], ds[i])
    /\ Len(cs) = 3 <=> ((cs[1] > ds[1]) # (cs[2] > ds[2]))

\* C15: every score that a score submission has stored on a challenge
\* passes match validation; a form with an invalid score is rejected and
\* changes nothing.
C15_StoredScoresValid ==
    \A i \in 1..Len(dbChallenges) :
        HasScore(dbChallenges[i]) =>
            PassesMatchValidation(dbChallenges[i].challenger_sets,
                                  dbChallenges[i].challenged_sets)

----------------------------------------------------------------------------
\* End of a challenge

\* C16: declined is final: no step changes the status, the score or the
\* validated flag of a challenge that is declined, and no step moves a team
\* on account of it.
C16_DeclinedIsTerminal ==
    [][ \A i \in 1..Len(dbChallenges) :
          dbChallenges[i].status = "declined" =>
             /\ dbChallenges'[i] = dbChallenges[i]
             /\ (last'.id = i /\ last'.op # "createTeam") => dbTeams' = dbTeams ]_vars

\* C17: validateScore(id, true) called again on a challenge that is already
\* validated changes no team and no challenge, whatever other validated
\* results have moved the teams in between: a challenge moves the teams at
\* most once.
C17_RevalidationChangesNothing ==
    [][ (/\ last'.op = "validateScore(true)"
         /\ dbChallenges[last'.id].score_validated)
        => (dbTeams' = dbTeams /\ dbChallenges' = dbChallenges) ]_vars

----------------------------------------------------------------------------
\* SpecUI: the two teams of a challenge use the score dialog and the
\* confirmation buttons of the Challenges screen and of the notifications

\* Challenges screen, "Confirm": shown to the team that did not submit
ChallengesConfirm(c, i) ==
    /\ dbProfiles[c] # NULL
    /\ i \in 1..Len(cache[c].challenges)
    /\ LET ch == cache[c].challenges[i]
           hasScore == ch.status = "completed" /\ HasScore(ch)
           weSubmittedScore == ch.score_submitted_by = dbProfiles[c]
       IN /\ dbProfiles[c] \in Sides(ch)
          /\ ch.status = "accepted" \/ (ch.status = "completed" /\ ~ch.score_validated)
          /\ hasScore /\ ~weSubmittedScore
    /\ validateScore(c, i, TRUE)

\* Notifications, "Confirm" / "Dispute": shown for a score awaiting
\* validation to the team that is not the challenger
NotificationsAnswer(c, i, valid) ==
    /\ dbProfiles[c] # NULL
    /\ i \in 1..Len(cache[c].challenges)
    /\ LET ch == cache[c].challenges[i]
           isChallenger == ch.challenger_team_id = dbProfiles[c]
       IN /\ dbProfiles[c] \in Sides(ch)
          /\ ch.status = "completed" /\ ~ch.score_validated /\ HasScore(ch)
          /\ ~isChallenger
    /\ validateScore(c, i, valid)

NextUI ==
    \/ \E c \in Clients, i \in 1..Len(dbChallenges), f \in ScoreForms :
          handleSubmitScore(c, i, f)
    \/ \E c \in Clients, i \in 1..Len(dbChallenges) : ChallengesConfirm(c, i)
    \/ \E c \in Clients, i \in 1..Len(dbChallenges), valid \in BOOLEAN :
          NotificationsAnswer(c, i, valid)
    \/ \E c \in Clients : RealtimeChallenges(c)
    \/ \E c \in Clients : RealtimeTeams(c)

SpecUI == InitSubmit /\ [][NextUI]_vars

\* C18: a score becomes validated only by a confirmation of the team that
\* did not submit it: no button lets the team recorded as submitter confirm
\* its own score.
C18_OnlyOpponentConfirms ==
    [][ \A c \in Clients, i \in 1..Len(dbChallenges) :
          (/\ ChallengesConfirm(c, i) \/ NotificationsAnswer(c, i, TRUE)
           /\ ~dbChallenges[i].score_validated
           /\ dbChallenges'[i].score_validated)
          => dbProfiles[c] # dbChallenges[i].score_submitted_by ]_vars

----------------------------------------------------------------------------
\* SpecFail: one validateScore(id, true) call, request by request, on a
\* store that may answer any write with an error.  The call logs the error
\* and goes on.

FailTeams == 4

VsSteps(c, pc) ==
    /\ vs[c].pc = pc
    /\ UNCHANGED <<dbTeams, dbChallenges, dbProfiles, dbJoinRequests, cache,
                   settings, now, last, elig, cc, scores, rj, limits>>

\* challengeError: logged
VsMarkFails(c) ==
    /\ VsSteps(c, "mark")
    /\ vs' = [vs EXCEPT ![c].pc = IF RunsRanking(VsChallenge(c), vs[c].winnerId)
                                  THEN "fetchFresh" ELSE "refresh"]

\* step1Error: logged
VsParkFails(c) ==
    /\ VsSteps(c, "park")
    /\ vs' = [vs EXCEPT ![c].pc = "select"]

\* error shifting a team: logged, the loop goes on
VsShiftFails(c) ==
    /\ VsSteps(c, "shift")
    /\ vs' = [vs EXCEPT ![c].teamsToShift = Tail(@),
                        ![c].pc = IF Tail(vs[c].teamsToShift) = <<>>
                                  THEN "place" ELSE "shift"]

\* step3Error: logged
VsPlaceFails(c) ==
    /\ VsSteps(c, "place")
    /\ vs' = [vs EXCEPT ![c].pc = "refresh"]

InitFail ==
    /\ dbTeams = Ladder(FailTeams)
    /\ \E a, b \in 1..FailTeams, s \in ScoreInputs :
          /\ a # b
          /\ dbChallenges = <<Submitted(a, b, s, a)>>
    /\ dbProfiles = NoTeam
    /\ dbJoinRequests = <<>>
    /\ cache = [c \in Clients |-> [teams |-> dbTeams, challenges |-> dbChallenges,
                                    joinRequests |-> <<>>]]
    /\ settings = NoSettings
    /\ now = 0
    /\ last = Outcome("submitScore", "ok", 1)
    /\ vs = [c \in Clients |-> Idle]
    /\ cc = NoCalls
    /\ scores = NoScores
    /\ rj = NoJoins
    /\ elig = NoElig
    /\ limits = [teams |-> FailTeams, challenges |-> 1, requests |-> 0]

NextFail ==
    \/ \E c \in Caller, i \in 1..Len(dbChallenges) : VsCall(c, i)
    \/ \E c \in Caller : VsMark(c)
    \/ \E c \in Caller : VsMarkFails(c)
    \/ \E c \in Caller : VsFetchFresh(c)
    \/ \E c \in Caller : VsPark(c)
    \/ \E c \in Caller : VsParkFails(c)
    \/ \E c \in Caller : VsSelect(c)
    \/ \E c \in Caller : VsShift(c)
    \/ \E c \in Caller : VsShiftFails(c)
    \/ \E c \in Caller : VsPlace(c)
    \/ \E c \in Caller : VsPlaceFails(c)
    \/ \E c \in Caller : VsRefresh(c)

SpecFail == InitFail /\ [][NextFail]_vars

\* the caller's cache holds the store as it was when the call began
BeforeCall(c) == cache[c]

\* C19: when the writes of a validateScore(id, true) call are over, either
\* all of them took effect (the challenge validated with its winner, the
\* teams as the whole position update leaves them) or nothing is changed, in
\* the teams and in the challenge; and the teams are changed only if the
\* challenge is recorded as validated with the challenger as winner.
C19_AllOrNothing ==
    \A c \in Caller :
        vs[c].pc = "refresh" =>
            LET ch == BeforeCall(c).challenges[vs[c].id]
            IN /\ \/ /\ dbTeams = BeforeCall(c).teams
                     /\ dbChallenges = BeforeCall(c).challenges
                  \/ /\ dbChallenges = MarkValidated(BeforeCall(c).challenges,
                                                     vs[c].id, vs[c].winnerId)
                     /\ dbTeams = IF vs[c].winnerId = ch.challenger_team_id
                                  THEN RankingUpdate(BeforeCall(c).teams,
                                                     ch.challenger_team_id,
                                                     ch.challenged_team_id)
                                  ELSE BeforeCall(c).teams
               /\ dbTeams # BeforeCall(c).teams =>
                     /\ dbChallenges[vs[c].id].score_validated
                     /\ dbChallenges[vs[c].id].winner_id = ch.challenger_team_id

----------------------------------------------------------------------------
\* SpecRead: one validateScore(id, true) call, request by request, while
\* the other client's subscription fetches the teams after any write.

NextRead ==
    \/ \E c \in Caller, i \in 1..Len(dbChallenges) : VsCall(c, i)
    \/ \E c \in Caller : VsMark(c)
    \/ \E c \in Caller : VsFetchFresh(c)
    \/ \E c \in Caller : VsPark(c)
    \/ \E c \in Caller : VsSelect(c)
    \/ \E c \in Caller : VsShift(c)
    \/ \E c \in Caller : VsPlace(c)
    \/ \E c \in Caller : VsRefresh(c)
    \/ \E c \in Clients \ Caller : RealtimeTeams(c)

SpecRead == InitFail /\ [][NextRead]_vars

\* C20: the teams a client has fetched are, in each league, at positions
\* that are a dense permutation of 1..N, also when it fetched them between
\* two writes of a position update in progress.
C20_ReadersSeeDense ==
    \A c \in Clients, league \in Leagues : Dense(cache[c].teams, league)

----------------------------------------------------------------------------
\* SpecTimeout: the "Challenge" button of the Challenges screen.  The call
\* of createChallenge races a timer; when the timer wins the screen reports
\* a timeout and takes challenges again, while the insert request stays with
\* the store, which serves it later.

TimeoutTeams == 3
TimeoutRows == 2
TimeoutRetries == 2

\* hasActiveChallenge(teamId) over the cached challenges of the user's team
hasActiveChallenge(c, teamId) ==
    \E i \in 1..Len(cache[c].challenges) :
        LET ch == cache[c].challenges[i]
        IN /\ dbProfiles[c] \in Sides(ch)
           /\ teamId \in Sides(ch)
           /\ ch.status = "accepted" \/ (ch.status = "completed" /\ ~ch.score_validated)

\* challengeableTeams
Challengeable(c, teamId) ==
    LET myTeam == TeamObject(cache[c].teams, dbProfiles[c])
        t == TeamObject(cache[c].teams, teamId)
    IN /\ t.league = myTeam.league
       /\ canChallenge(myTeam, t)
       /\ ~hasActiveChallenge(c, teamId)

\* handleChallenge up to the await: createChallenge has checked the cached
\* challenges and sent the insert
handleChallenge(c, teamId) ==
    /\ cc[c].challengingTeamId = NULL
    /\ dbProfiles[c] # NULL
    /\ dbProfiles[c] \in TeamIds(cache[c].teams)
    /\ teamId \in TeamIds(cache[c].teams)
    /\ Challengeable(c, teamId)
    /\ Len(cc[c].inflight) < TimeoutRetries
    /\ IF ExistingChallenge(cache[c].challenges, dbProfiles[c], teamId)
       THEN /\ last' = Outcome("createChallenge", "duplicate", NULL)
            /\ cc' = cc
       ELSE /\ cc' = [cc EXCEPT ![c] =
                        [challengingTeamId |-> teamId,
                         inflight |-> Append(@.inflight,
                                             [challenger_team_id |-> dbProfiles[c],
                                              challenged_team_id |-> teamId])]]
            /\ last' = Outcome("handleChallenge", "sending", NULL)
    /\ UNCHANGED <<dbTeams, dbChallenges, dbProfiles, dbJoinRequests, cache,
                   settings, now, vs, elig, scores, rj, limits>>

RemoveAt(seq, k) == SubSeq(seq, 1, k - 1) \o SubSeq(seq, k + 1, Len(seq))

\* the store serves an insert; createChallenge goes on with fetchChallenges
\* and, if the screen still waits for it, the screen reports success
CcInsert(c, k) ==
    /\ k \in 1..Len(cc[c].inflight)
    /\ Len(dbChallenges) < limits.challenges
    /\ dbChallenges' = Append(dbChallenges,
                              NewChallenge(cc[c].inflight[k].challenger_team_id,
                                           cc[c].inflight[k].challenged_team_id))
    /\ cache' = FetchChallenges(c)
    /\ cc' = [cc EXCEPT ![c] =
                [challengingTeamId |-> IF k = Len(cc[c].inflight) THEN NULL
                                       ELSE @.challengingTeamId,
                 inflight |-> RemoveAt(@.inflight, k)]]
    /\ last' = Outcome("createChallenge", "ok", Len(dbChallenges) + 1)
    /\ UNCHANGED <<dbTeams, dbProfiles, dbJoinRequests,
                   settings, now, vs, elig, scores, rj, limits>>

\* the 15 s timer wins the race
CcTimeout(c) ==
    /\ cc[c].challengingTeamId # NULL
    /\ cc' = [cc EXCEPT ![c].challengingTeamId = NULL]
    /\ last' = Outcome("handleChallenge", "timed out", NULL)
    /\ UNCHANGED <<dbTeams, dbChallenges, dbProfiles, dbJoinRequests, cache,
                   settings, now, vs, elig, scores, rj, limits>>

InitTimeout ==
    /\ dbTeams = Ladder(TimeoutTeams)
    /\ dbChallenges = <<>>
    /\ dbProfiles = [u \in Clients |-> IF u = "c1" THEN TimeoutTeams ELSE TimeoutTeams - 1]
    /\ dbJoinRequests = <<>>
    /\ cache = [c \in Clients |-> [teams |-> dbTeams, challenges |-> <<>>,
                                    joinRequests |-> <<>>]]
    /\ settings = DefaultSettings
    /\ now \in {0, DateToInstant(CutoverDay)}
    /\ last = Outcome("init", "ok", NULL)
    /\ vs = [c \in Clients |-> Idle]
    /\ cc = NoCalls
    /\ scores = NoScores
    /\ rj = NoJoins
    /\ elig = NoElig
    /\ limits = [teams |-> TimeoutTeams, challenges |-> TimeoutRows, requests |-> 0]

NextTimeout ==
    \/ \E c \in Clients, t \in TeamIds(dbTeams) : handleChallenge(c, t)
    \/ \E c \in Clients, k \in 1..TimeoutRetries : CcInsert(c, k)
    \/ \E c \in Clients : CcTimeout(c)
    \/ \E c \in Clients : RealtimeChallenges(c)

SpecTimeout == InitTimeout /\ [][NextTimeout]_vars

\* C21: also when a challenge was reported as timed out, its insert was
\* served later and the user sent the same challenge again, any two teams
\* have at most one active challenge between them.
C21_LateSuccessTolerated ==
    \A a, b \in TeamIds(dbTeams) :
        Cardinality({ i \in 1..Len(dbChallenges) :
                        IsActive(dbChallenges[i]) /\ Between(dbChallenges[i], a, b) }) <= 1

----------------------------------------------------------------------------
\* SpecDialog: the score dialog with its fields as state.  The challenger
\* has filled in the fields; Submit checks them and either shows a toast and
\* keeps them, or calls submitScore and empties them.

DialogValues == {NaN, -1, 0, 4, 5, 6, 7}

DialogForms == [set1c : DialogValues, set1d : DialogValues, set2c : DialogValues,
                set2d : DialogValues, set3c : DialogValues, set3d : DialogValues]

\* handleSubmitScore on the fields of c's dialog
SubmitDialog(c, selectedChallenge) ==
    /\ dbProfiles[c] # NULL
    /\ selectedChallenge \in 1..Len(cache[c].challenges)
    /\ MaySubmitScore(c, cache[c].challenges[selectedChallenge])
    /\ IF CheckScoreForm(scores[c]) = "submit"
       THEN /\ dbChallenges' = UpdateScore(dbChallenges, selectedChallenge,
                                           ToStored(FormChallengerSets(scores[c])),
                                           ToStored(FormChallengedSets(scores[c])),
                                           dbProfiles[c])
            /\ cache' = FetchChallenges(c)
            /\ last' = Outcome("submitScore", "ok", selectedChallenge)
            /\ scores' = [scores EXCEPT ![c] = EmptyScores]
       ELSE /\ last' = Outcome("handleSubmitScore", CheckScoreForm(scores[c]),
                               selectedChallenge)
            /\ UNCHANGED <<dbChallenges, cache, scores>>
    /\ UNCHANGED <<dbTeams, dbProfiles, dbJoinRequests,
                   settings, now, vs, elig, cc, rj, limits>>

InitDialog ==
    /\ dbTeams = Ladder(2)
    /\ dbChallenges = <<NewChallenge(2, 1)>>
    /\ dbProfiles = [u \in Clients |-> IF u = "c1" THEN 2 ELSE 1]
    /\ dbJoinRequests = <<>>
    /\ cache = [c \in Clients |-> [teams |-> dbTeams, challenges |-> dbChallenges,
                                    joinRequests |-> <<>>]]
    /\ settings = NoSettings
    /\ now = 0
    /\ last = Outcome("createChallenge", "ok", 1)
    /\ vs = [c \in Clients |-> Idle]
    /\ cc = NoCalls
    /\ \E f \in DialogForms : scores = [NoScores EXCEPT !["c1"] = f]
    /\ rj = NoJoins
    /\ elig = NoElig
    /\ limits = [teams |-> 2, challenges |-> 1, requests |-> 0]

NextDialog ==
    \/ \E c \in Clients, i \in 1..Len(dbChallenges) : SubmitDialog(c, i)
    \/ \E c \in Clients : RealtimeChallenges(c)

SpecDialog == InitDialog /\ [][NextDialog]_vars

\* the step was rejected by the dialog with the given toast / was submitted
Toast(title) == last'.op = "handleSubmitScore" /\ last'.result = title
Rejected == last'.op = "handleSubmitScore" /\ dbChallenges' = dbChallenges
Accepted == last'.op = "submitScore" /\ last'.result = "ok"

Present(x) == ~isNaN(x)

\* the set scores of the rules, for two numbers of games
RuleSet(a, b) ==
    LET hi == IF a > b THEN a ELSE b
        lo == IF a > b THEN b ELSE a
    IN \/ (hi = 6 /\ lo \in 0..4)
       \/ (hi = 7 /\ lo \in {5, 6})

\* C22: a set with both numbers of games present and not negative passes
\* the dialog exactly if the larger is 6 and the smaller 0..4, or the larger
\* is 7 and the smaller 5 or 6; equal games and negative games are
\* rejected, and so is a set with exactly one number present.
C22_SetScoreRule ==
    [][ \A c \in Clients, i \in 1..Len(dbChallenges) :
          SubmitDialog(c, i) =>
            LET f == scores[c]
                set1Passed == ~Toast("Invalid Set 1 Score")
                set2Passed == set1Passed /\ ~Toast("Invalid Set 2 Score")
                set3Passed == set2Passed /\ ~Toast("Invalid Set 3 Score")
                Rule(a, b, passed) ==
                    /\ (Present(a) /\ Present(b) /\ a >= 0 /\ b >= 0)
                          => (passed <=> RuleSet(a, b))
                    /\ (Present(a) /\ Present(b) /\ (a = b \/ a < 0 \/ b < 0))
                          => ~passed
                    /\ (Present(a) # Present(b)) => ~passed
            IN /\ Rule(f.set1c, f.set1d, set1Passed)
               /\ set1Passed => Rule(f.set2c, f.set2d, set2Passed)
               /\ set2Passed => Rule(f.set3c, f.set3d, set3Passed)
               /\ ~set3Passed => Rejected ]_vars

\* a score with 7-5 and 6-4 for the challenger has been stored
C22_Witness ==
    /\ last = Outcome("submitScore", "ok", 1)
    /\ dbChallenges[1].challenger_sets = <<7, 6>>
    /\ dbChallenges[1].challenged_sets = <<5, 4>>

\* the side that has the more games in a set of the form: 1 the challenger,
\* 2 the challenged team, 0 none
SetWinner(a, b) ==
    IF ~Present(a) \/ ~Present(b) THEN 0
    ELSE IF a > b THEN 1 ELSE IF b > a THEN 2 ELSE 0

\* C23: a form on which one side has won both of the first two sets and a
\* third set is filled in is rejected, whatever the third set is and whoever
\* wins it, and nothing is submitted.
C23_NoThirdSetAfterTwoNil ==
    [][ \A c \in Clients, i \in 1..Len(dbChallenges) :
          LET f == scores[c]
          IN (/\ SubmitDialog(c, i)
              /\ SetWinner(f.set1c, f.set1d) # 0
              /\ SetWinner(f.set1c, f.set1d) = SetWinner(f.set2c, f.set2d)
              /\ Present(f.set3c) /\ Present(f.set3d))
             => Rejected ]_vars

\* C24: a form on which both fields of set 1, or both fields of set 2, are
\* empty is rejected and nothing is submitted.
C24_FirstTwoSetsMandatory ==
    [][ \A c \in Clients, i \in 1..Len(dbChallenges) :
          LET f == scores[c]
          IN (/\ SubmitDialog(c, i)
              /\ \/ (~Present(f.set1c) /\ ~Present(f.set1d))
                 \/ (~Present(f.set2c) /\ ~Present(f.set2d)))
             => Rejected ]_vars

\* C25: when the first two sets are valid and split, a form without a third
\* set is rejected, and a form with a valid third set is submitted as
\* entered, with the winner of the third set as the winner of the match.
C25_SplitNeedsThirdSet ==
    [][ \A c \in Clients, i \in 1..Len(dbChallenges) :
          LET f == scores[c]
              split == /\ Present(f.set1c) /\ Present(f.set1d)
                       /\ Present(f.set2c) /\ Present(f.set2d)
                       /\ RuleSet(f.set1c, f.set1d) /\ RuleSet(f.set2c, f.set2d)
                       /\ SetWinner(f.set1c, f.set1d) # SetWinner(f.set2c, f.set2d)
              third == SetWinner(f.set3c, f.set3d)
          IN (SubmitDialog(c, i) /\ split) =>
               /\ (~Present(f.set3c) /\ ~Present(f.set3d)) => Rejected
               /\ (Present(f.set3c) /\ Present(f.set3d) /\ RuleSet(f.set3c, f.set3d)) =>
                    /\ Accepted
                    /\ dbChallenges'[i].challenger_sets = <<f.set1c, f.set2c, f.set3c>>
                    /\ dbChallenges'[i].challenged_sets = <<f.set1d, f.set2d, f.set3d>>
                    /\ WinnerId(dbChallenges'[i]) =
                         IF third = 1 THEN dbChallenges[i].challenger_team_id
                         ELSE dbChallenges[i].challenged_team_id ]_vars

\* 6-4, 4-6, 7-5 has been stored, a win of the challenger
C25_Witness ==
    /\ last = Outcome("submitScore", "ok", 1)
    /\ dbChallenges[1].challenger_sets = <<6, 4, 7>>
    /\ dbChallenges[1].challenged_sets = <<4, 6, 5>>
    /\ WinnerId(dbChallenges[1]) = dbChallenges[1].challenger_team_id

----------------------------------------------------------------------------
\* SpecJoin: respondToJoinRequest request by request.  Between its reads
\* and writes of the store the calls of other clients run.

JoinUsers == {"c1", "c2", "u3", "u4", "u5"}
JoinTeam == 1
JoinOrder == <<"c1", "c2", "u3", "u4", "u5">>

\* faulty variant: a team of four still takes a member
RjCheckAboveCapacity(c, requestId, accept) ==
    /\ rj[c].pc = "idle"
    /\ IF requestId \notin 1..Len(cache[c].joinRequests)
       THEN /\ last' = Outcome("respondToJoinRequest", "not found", requestId)
            /\ rj' = rj
       ELSE LET request == cache[c].joinRequests[requestId]
            IN IF accept /\ MemberCount(dbProfiles, request.team_id) > TeamCapacity
               THEN /\ last' = Outcome("respondToJoinRequest", "team full", requestId)
                    /\ rj' = rj
               ELSE /\ rj' = [rj EXCEPT ![c] =
                                [pc |-> IF accept THEN "profile" ELSE "status",
                                 requestId |-> requestId, accept |-> accept]]
                    /\ last' = Outcome("respondToJoinRequest", "checked", requestId)
    /\ UNCHANGED <<dbTeams, dbChallenges, dbProfiles, dbJoinRequests, cache,
                   settings, now, vs, elig, cc, scores, limits>>

\* the request is looked up in the cached requests and, on accept, the
\* team's members are read from the store and counted
RjCheck(c, requestId, accept) ==
    /\ rj[c].pc = "idle"
    /\ IF requestId \notin 1..Len(cache[c].joinRequests)
       THEN /\ last' = Outcome("respondToJoinRequest", "not found", requestId)
            /\ rj' = rj
       ELSE LET request == cache[c].joinRequests[requestId]
            IN IF accept /\ MemberCount(dbProfiles, request.team_id) >= TeamCapacity
               THEN /\ last' = Outcome("respondToJoinRequest", "team full", requestId)
                    /\ rj' = rj
               ELSE /\ rj' = [rj EXCEPT ![c] =
                                [pc |-> IF accept THEN "profile" ELSE "status",
                                 requestId |-> requestId, accept |-> accept]]
                    /\ last' = Outcome("respondToJoinRequest", "checked", requestId)
    /\ UNCHANGED <<dbTeams, dbChallenges, dbProfiles, dbJoinRequests, cache,
                   settings, now, vs, elig, cc, scores, limits>>

\* UPDATE profiles SET team_id = request.teamId WHERE id = request.userId
RjAddUser(c) ==
    /\ rj[c].pc = "profile"
    /\ LET request == cache[c].joinRequests[rj[c].requestId]
       IN dbProfiles' = [dbProfiles EXCEPT ![request.user_id] = request.team_id]
    /\ rj' = [rj EXCEPT ![c].pc = "status"]
    /\ last' = Outcome("respondToJoinRequest", "user added", rj[c].requestId)
    /\ UNCHANGED <<dbTeams, dbChallenges, dbJoinRequests, cache,
                   settings, now, vs, elig, cc, scores, limits>>

\* UPDATE join_requests SET status = ..., then refreshData
RjFinish(c) ==
    /\ rj[c].pc = "status"
    /\ dbJoinRequests' = [dbJoinRequests EXCEPT ![rj[c].requestId].status =
                            IF rj[c].accept THEN "accepted" ELSE "declined"]
    /\ UNCHANGED <<dbTeams, dbChallenges, dbProfiles>>
    /\ cache' = RefreshData(c)
    /\ rj' = [rj EXCEPT ![c] = [pc |-> "idle", requestId |-> NULL]]
    /\ last' = Outcome("respondToJoinRequest", "ok", rj[c].requestId)
    /\ UNCHANGED <<settings, now, vs, elig, cc, scores, limits>>

\* a pending request of user u for the team
PendingRequest(u) == [user_id |-> u, team_id |-> JoinTeam, status |-> "pending"]

\* the team has two to four members, both clients among them, and every
\* other user has asked to join
InitJoin ==
    /\ dbTeams = Ladder(2)
    /\ dbChallenges = <<>>
    /\ \E members \in SUBSET JoinUsers :
          /\ Clients \subseteq members
          /\ Cardinality(members) <= TeamCapacity
          /\ dbProfiles = [u \in JoinUsers |-> IF u \in members THEN JoinTeam ELSE NULL]
          /\ LET Asks(u) == u \notin members
                 asking == SelectSeq(JoinOrder, Asks)
             IN dbJoinRequests = [i \in 1..Len(asking) |-> PendingRequest(asking[i])]
    /\ cache = [c \in Clients |-> [teams |-> dbTeams, challenges |-> <<>>,
                                    joinRequests |-> dbJoinRequests]]
    /\ settings = NoSettings
    /\ now = 0
    /\ last = Outcome("init", "ok", NULL)
    /\ vs = [c \in Clients |-> Idle]
    /\ cc = NoCalls
    /\ scores = NoScores
    /\ rj = NoJoins
    /\ elig = NoElig
    /\ limits = [teams |-> 2, challenges |-> 0, requests |-> Len(dbJoinRequests)]

NextJoin ==
    \/ \E c \in Clients, r \in 1..Len(dbJoinRequests), accept \in BOOLEAN :
          RjCheck(c, r, accept)
    \/ \E c \in Clients : RjAddUser(c)
    \/ \E c \in Clients : RjFinish(c)
    \/ \E c \in Clients : RealtimeJoinRequests(c)

SpecJoin == InitJoin /\ [][NextJoin]_vars

\* C26: accepting a join request for a team that has four members fails
\* with the team-full error; the user's team and the status of the request
\* stay as they were and the call is over.
C26_FullTeamRefuses ==
    [][ \A c \in Clients, r \in 1..Len(dbJoinRequests) :
          (/\ RjCheck(c, r, TRUE)
           /\ r \in 1..Len(cache[c].joinRequests)
           /\ MemberCount(dbProfiles, cache[c].joinRequests[r].team_id) >= TeamCapacity)
          => /\ last' = Outcome("respondToJoinRequest", "team full", r)
             /\ dbProfiles' = dbProfiles
             /\ dbJoinRequests' = dbJoinRequests
             /\ rj'[c].pc = "idle" ]_vars

\* a request for the team of four has been refused: it is still pending and
\* its user still has no team
C26_Witness ==
    /\ last.op = "respondToJoinRequest" /\ last.result = "team full"
    /\ MemberCount(dbProfiles, JoinTeam) = TeamCapacity
    /\ dbJoinRequests[last.id].status = "pending"
    /\ dbProfiles[dbJoinRequests[last.id].user_id] = NULL

\* C30: in every reachable state, also while several acceptances for the
\* same team are under way, no team has more than four members.
C30_NeverMoreThanFour ==
    \A t \in TeamIds(dbTeams) : MemberCount(dbProfiles, t) <= TeamCapacity

----------------------------------------------------------------------------
\* C27: a successful submitScore leaves the challenge with both set arrays
\* as submitted, status completed, the submitting team recorded and the
\* validated flag false, also when a score had been submitted before.
C27_SubmitClearsValidated ==
    [][ \A c \in Caller, i \in 1..Len(dbChallenges), s \in ScoreInputs :
          \A by \in Sides(dbChallenges[i]) :
             submitScore(c, i, s[1], s[2], by) =>
               /\ dbChallenges'[i].challenger_sets = s[1]
               /\ dbChallenges'[i].challenged_sets = s[2]
               /\ dbChallenges'[i].status = "completed"
               /\ dbChallenges'[i].score_submitted_by = by
               /\ ~dbChallenges'[i].score_validated ]_vars

----------------------------------------------------------------------------
\* C28: when a confirmation marks a challenge validated, the winner it
\* records and its effect on the positions are those of the score the store
\* holds for the challenge at that moment, also when the confirming client's
\* cached copy of the challenge holds an older score.
C28_StoredScoreDecides ==
    [][ \A c \in Clients, i \in 1..Len(dbChallenges) :
          (/\ ChallengesConfirm(c, i) \/ NotificationsAnswer(c, i, TRUE)
           /\ HasScore(dbChallenges[i])
           /\ dbChallenges'[i].score_validated)
          => LET stored == dbChallenges[i]
             IN /\ dbChallenges'[i].winner_id = WinnerId(stored)
                /\ dbTeams' = IF RunsRanking(stored, WinnerId(stored))
                              THEN RankingUpdate(dbTeams, stored.challenger_team_id,
                                                 stored.challenged_team_id)
                              ELSE dbTeams ]_vars

----------------------------------------------------------------------------
\* C29: while one position update runs alone, after each of its writes no
\* two teams of a league hold the same position, and no write is refused by
\* UNIQUE(league, position): the park at 99999, each shift (from the highest
\* position of the range down) and the placement of the winner take effect.
C29_NoWriteCollides ==
    /\ [](\A i, j \in TeamIds(dbTeams) :
             (i # j /\ dbTeams[i].league = dbTeams[j].league)
                => dbTeams[i].position # dbTeams[j].position)
    /\ [][ \A c \in Caller :
             LET winner == VsChallenge(c).challenger_team_id
             IN /\ VsPark(c) => dbTeams'[winner].position = TempPosition
                /\ VsShift(c) =>
                     dbTeams'[Head(vs[c].teamsToShift).id].position
                        = Head(vs[c].teamsToShift).position + 1
                /\ VsPlace(c) => dbTeams'[winner].position = vs[c].loserPosition ]_vars

\* the writes of an update that moved the winner up three positions are over
C29_Witness ==
    \E c \in Caller :
        /\ vs[c].pc = "refresh"
        /\ vs[c].winnerOldPosition = vs[c].loserPosition + 3
        /\ dbTeams[VsChallenge(c).challenger_team_id].position = vs[c].loserPosition
        /\ \A j \in TeamIds(dbTeams) :
              j # VsChallenge(c).challenger_team_id
                 => dbTeams[j].position = dbTeams[j].previous_position + 1
====
